---- MODULE Spec2Model ----
(***************************************************************************)
(* Verification model of three parts of CasADi:                            *)
(*   - IOSchemeCustomInternal, the custom name <-> index scheme            *)
(*     (src/unnamed/part_000),                                             *)
(*   - MumpsInterface / MumpsMemory, the MUMPS linear solver plugin        *)
(*     (src/casadi/interfaces/mumps/mumps_interface.cpp),                  *)
(*   - FX, the public function class (src/casadi/fx/fx.hpp).               *)
(* Each part has its own specification (SpecIO, SpecMumps, SpecFX) over    *)
(* its own variables; the variables of the other parts stay at their       *)
(* initial values.                                                         *)
(***************************************************************************)
EXTENDS Integers, Sequences, FiniteSets, TLC

VARIABLES
  \* ---- IOSchemeCustomInternal
  ioState,        \* "none" | "constructed" | "rejected" (constructor threw)
  ioArgs,         \* the arguments the constructor was called with
  entries_,       \* std::vector<std::string> entries_
  descriptions_,  \* std::vector<std::string> descriptions_
  ioRet           \* outcome of the last member function call

ioVars == <<ioState, ioArgs, entries_, descriptions_, ioRet>>

VARIABLES
  \* ---- MumpsInterface / MumpsMemory
  sp,             \* sparsity pattern of the linear solver (LinsolInternal::sp_)
  memState,       \* "alive" | "destroyed" | "faulted" : the MumpsMemory object
  id,             \* MumpsMemory::id, 0 (null) or the number of a MUMPS instance
  irn,            \* MumpsMemory::irn
  jcn,            \* MumpsMemory::jcn
  mumps,          \* the DMUMPS_STRUC_C objects allocated so far, by number
  mRet            \* outcome of the last call on the solver

mumpsVars == <<sp, memState, id, irn, jcn, mumps, mRet>>

VARIABLES
  \* ---- FX
  fxState,        \* "Uninitialized" | "Initializing" | "Ready"
  fxShape,        \* column counts of the input slot (m) and the output slot (q)
  input_,         \* std::vector<FunctionIO>: the input slots
  output_,        \* std::vector<FunctionIO>: the output slots
  fxRet           \* outcome of the last call on the function

fxVars == <<fxState, fxShape, input_, output_, fxRet>>

vars == <<ioVars, mumpsVars, fxVars>>
notIO == <<mumpsVars, fxVars>>
notMumps == <<ioVars, fxVars>>
notFX == <<ioVars, mumpsVars>>

(***************************************************************************)
(* Bounds and input alphabets                                              *)
(***************************************************************************)
\* longest entry / description list handed to the constructor
MaxLen == 2

\* entry names a scheme is built from, and the names looked up with index()
Names == {"a", "b"}
QueryNames == Names \cup {"z"}
\* descriptions: the empty one and a non-empty one
Descs == {"", "d"}

SeqsUpTo(S, n) == UNION {[1..k -> S] : k \in 0..n}

\* int arguments tried for entry(i) and describe(i): both sides of the range
IndexArgs == (0 - 2)..(MaxLen + 1)

(***************************************************************************)
(* IOSchemeCustomInternal                                                  *)
(***************************************************************************)
NoRet == [op |-> "none"]

\* The constructor without its casadi_assert: a mismatched list is kept.
IOSchemeCustomInternal_noassert(entries, descriptions) ==
  [ok |-> TRUE,
   entries |-> entries,
   descriptions |-> IF descriptions = <<>> THEN [k \in 1..Len(entries) |-> ""]
                    ELSE descriptions]

\* Constructor: copy both lists, pad an empty description list to one empty
\* string per entry, then assert that the sizes agree (the assertion throws).
IOSchemeCustomInternal(entries, descriptions) ==
  LET padded == IF descriptions = <<>> THEN [k \in 1..Len(entries) |-> ""]
                ELSE descriptions
  IN  IF Len(padded) = Len(entries)
      THEN [ok |-> TRUE, entries |-> entries, descriptions |-> padded]
      ELSE [ok |-> FALSE, entries |-> <<>>, descriptions |-> <<>>]

size == Len(entries_)

name == "customIO"

\* entryNames(): the entries joined by ", " (kept as the list of pieces
\* written to the stream)
RECURSIVE entryNamesFrom(_)
entryNamesFrom(i) ==
  IF i >= Len(entries_) THEN <<>>
  ELSE (IF i # 0 THEN <<", ">> ELSE <<>>) \o <<entries_[i + 1]>> \o entryNamesFrom(i + 1)

entryNames == entryNamesFrom(0)

\* entry(i) with the upper limit of the range check off by one.
entry_offbyone(i) ==
  IF i >= 0 /\ i <= Len(entries_)
  THEN [status |-> "ok", str |-> IF i < Len(entries_) THEN entries_[i + 1] ELSE ""]
  ELSE [status |-> "error", where |-> "customIO::entry()", index |-> i,
        length |-> Len(entries_)]

\* entry(i): range-checked read of entries_[i]; the failed assertion's message
\* carries the index and the length.
entry(i) ==
  IF i >= 0 /\ i < Len(entries_)
  THEN [status |-> "ok", str |-> entries_[i + 1]]
  ELSE [status |-> "error", where |-> "customIO::entry()", index |-> i,
        length |-> Len(entries_)]

entryEnum(i) == ""

\* The linear search of index() from position k (0-based): the first match.
RECURSIVE indexFrom(_, _)
indexFrom(nm, k) ==
  IF k >= Len(entries_) THEN -1
  ELSE IF nm = entries_[k + 1] THEN k
  ELSE indexFrom(nm, k + 1)

\* index() searching from the back: the last match.
RECURSIVE indexBack(_, _)
indexBack(nm, k) ==
  IF k < 0 THEN -1
  ELSE IF nm = entries_[k + 1] THEN k
  ELSE indexBack(nm, k - 1)

index_last(nm) ==
  LET k == indexBack(nm, Len(entries_) - 1)
  IN  IF k >= 0 THEN [status |-> "ok", idx |-> k]
      ELSE [status |-> "error", where |-> "customIO::index()", entry |-> nm,
            available |-> entryNames]

\* index() returning a 1-based position.
index_onebased(nm) ==
  LET k == indexFrom(nm, 0)
  IN  IF k >= 0 THEN [status |-> "ok", idx |-> k + 1]
      ELSE [status |-> "error", where |-> "customIO::index()", entry |-> nm,
            available |-> entryNames]

\* index() without the casadi_error: the trailing "return -1" is reached.
index_minusone(nm) == [status |-> "ok", idx |-> indexFrom(nm, 0)]

\* index(name): position of the first entry equal to name; when there is none
\* casadi_error throws (the "return -1" after it is never reached).
index(nm) ==
  LET k == indexFrom(nm, 0)
  IN  IF k >= 0 THEN [status |-> "ok", idx |-> k]
      ELSE [status |-> "error", where |-> "customIO::index()", entry |-> nm,
            available |-> entryNames]

\* describe(i): descriptions_[i] is read with operator[] before entry(i)
\* checks the range.  Out of range that read is undefined behaviour: the
\* process may fault, or the read yields some string and entry(i) then throws
\* in either branch.
describe(i) ==
  IF i >= 0 /\ i < Len(descriptions_)
  THEN IF descriptions_[i + 1] = ""
       THEN {[status |-> "ok", pieces |-> <<entry(i).str>>]}
       ELSE {[status |-> "ok",
              pieces |-> <<entry(i).str, " '", descriptions_[i + 1], "'">>]}
  ELSE {[status |-> "fault"], entry(i)}

\* print() and repr() write the same text.
print == <<"customIO(">> \o entryNames \o <<")">>
repr == <<"customIO(">> \o entryNames \o <<")">>

InitIOVars ==
  /\ ioState = "none"
  /\ ioArgs = [entries |-> <<>>, descriptions |-> <<>>]
  /\ entries_ = <<>>
  /\ descriptions_ = <<>>
  /\ ioRet = NoRet

Construct ==
  /\ ioState = "none"
  /\ \E es \in SeqsUpTo(Names, MaxLen), ds \in SeqsUpTo(Descs, MaxLen) :
       LET r == IOSchemeCustomInternal(es, ds)
       IN  /\ ioArgs' = [entries |-> es, descriptions |-> ds]
           /\ ioState' = IF r.ok THEN "constructed" ELSE "rejected"
           /\ entries_' = r.entries
           /\ descriptions_' = r.descriptions
  /\ ioRet' = NoRet
  /\ UNCHANGED notIO

Entry ==
  /\ ioState = "constructed"
  /\ \E i \in IndexArgs : ioRet' = [op |-> "entry", i |-> i, res |-> entry(i)]
  /\ UNCHANGED <<ioState, ioArgs, entries_, descriptions_, notIO>>

Index ==
  /\ ioState = "constructed"
  /\ \E nm \in QueryNames : ioRet' = [op |-> "index", name |-> nm, res |-> index(nm)]
  /\ UNCHANGED <<ioState, ioArgs, entries_, descriptions_, notIO>>

\* A describe(i) call.  Its first statement evaluates descriptions_[i], so the
\* call reads element i of the description list whatever i is (read).
Describe ==
  /\ ioState = "constructed"
  /\ \E i \in IndexArgs : \E r \in describe(i) :
       ioRet' = [op |-> "describe", i |-> i, res |-> r, read |-> i]
  /\ UNCHANGED <<ioState, ioArgs, entries_, descriptions_, notIO>>

EntryEnum ==
  /\ ioState = "constructed"
  /\ \E i \in IndexArgs : ioRet' = [op |-> "entryEnum", i |-> i, str |-> entryEnum(i)]
  /\ UNCHANGED <<ioState, ioArgs, entries_, descriptions_, notIO>>

EntryNames ==
  /\ ioState = "constructed"
  /\ ioRet' = [op |-> "entryNames", pieces |-> entryNames]
  /\ UNCHANGED <<ioState, ioArgs, entries_, descriptions_, notIO>>

Size ==
  /\ ioState = "constructed"
  /\ ioRet' = [op |-> "size", n |-> size]
  /\ UNCHANGED <<ioState, ioArgs, entries_, descriptions_, notIO>>

NameOf ==
  /\ ioState = "constructed"
  /\ ioRet' = [op |-> "name", str |-> name]
  /\ UNCHANGED <<ioState, ioArgs, entries_, descriptions_, notIO>>

PrintCall ==
  /\ ioState = "constructed"
  /\ ioRet' = [op |-> "print", pieces |-> print]
  /\ UNCHANGED <<ioState, ioArgs, entries_, descriptions_, notIO>>

ReprCall ==
  /\ ioState = "constructed"
  /\ ioRet' = [op |-> "repr", pieces |-> repr]
  /\ UNCHANGED <<ioState, ioArgs, entries_, descriptions_, notIO>>

IOStep ==
  \/ Construct
  \/ Entry
  \/ Index
  \/ Describe
  \/ EntryEnum
  \/ EntryNames
  \/ Size
  \/ NameOf
  \/ PrintCall
  \/ ReprCall


(***************************************************************************)
(* MumpsInterface / MumpsMemory                                            *)
(***************************************************************************)
\* largest number of rows and of columns of a sparsity pattern
MaxDim == 2
\* number of DMUMPS_STRUC_C objects that may be allocated in one run
MaxInst == 2

\* Compressed column storage of the pattern with the nonzero cells S
\* (pairs <<row, column>>, 0-based) of an nr-by-nc block: colind has nc + 1
\* entries, row lists the rows column by column, sorted within a column.
CellRank(S, x) ==
  Cardinality({y \in S : y[2] < x[2] \/ (y[2] = x[2] /\ y[1] < x[1])})

Sparsity(nr, nc, S) ==
  [nrow |-> nr,
   ncol |-> nc,
   colind |-> [j \in 1..(nc + 1) |-> Cardinality({y \in S : y[2] < j - 1})],
   row |-> [k \in 1..Cardinality(S) |->
              (CHOOSE x \in S : CellRank(S, x) = k - 1)[1]]]

\* The patterns of at most MaxDim rows and columns that have more rows than
\* columns (tall = TRUE), or at most as many rows as columns (tall = FALSE).
PatternsWhere(tall) ==
  {Sparsity(t[1], t[2], t[3]) :
     t \in {u \in (0..MaxDim) \X (0..MaxDim) \X
                    SUBSET ((0..(MaxDim - 1)) \X (0..(MaxDim - 1))) :
              /\ (u[1] > u[2]) = tall
              /\ \A x \in u[3] : x[1] < u[1] /\ x[2] < u[2]}}

\* Every pattern within the bounds: square and wide ones, and tall ones.
Patterns == PatternsWhere(FALSE) \cup PatternsWhere(TRUE)

nrow == sp.nrow
ncol == sp.ncol
nnz == Len(sp.row)

\* What a read past the end of colind / row may yield: for each colind index
\* beyond the array a value below or above every valid entry, for row a value
\* inside or outside the row range.
Garbage ==
  [colind : [(ncol + 1)..nrow -> {0, nnz + 1}], row : {0, nrow}]
NoGarbage == [colind |-> <<>>, row |-> 0]

\* colind[j] (0-based j) as the loop reads it
colindAt(j, g) == IF j <= ncol THEN sp.colind[j + 1] ELSE g.colind[j]
\* row[k] (0-based k) as the loop reads it
rowAt(k, g) == IF k < nnz THEN sp.row[k + 1] ELSE g.row

\* new DMUMPS_STRUC_C(): a value-initialized structure.  Besides the fields
\* the interface sets, each structure carries a ledger of the package calls
\* made on it.
NoStruct ==
  [st |-> "free", job |-> 0, par |-> 0, sym |-> 0, comm_fortran |-> 0,
   n |-> 0, nnz |-> 0, icntl |-> <<0, 0, 0, 0>>, infog |-> 0,
   inits |-> 0, terms |-> 0, misuse |-> FALSE]
NewStruct == [NoStruct EXCEPT !.st = "live"]

\* results the package may report in INFOG(1): success, or an error
MumpsInfo == {0, 0 - 10}

\* dmumps_c(id): the package runs the job the structure names and reports in
\* INFOG(1).  The ledger counts initializations (job -1) and terminations
\* (job -2) and notes a call on a structure that is not usable for it.
dmumps_c(s, info) ==
  [s EXCEPT
     !.infog = info,
     !.inits = IF s.job = 0 - 1 THEN s.inits + 1 ELSE s.inits,
     !.terms = IF s.job = 0 - 2 THEN s.terms + 1 ELSE s.terms,
     !.misuse = \/ s.misuse
                \/ s.st # "live"
                \/ s.terms > 0
                \/ (s.job = 0 - 1 /\ s.inits > 0)
                \/ (s.job # 0 - 1 /\ s.inits = 0)]

\* An instance that is dropped without job = -2 and without delete.
Terminate_leak(s, info) == s

\* The termination of an instance: job = -2, dmumps_c, delete.  Of a deleted
\* structure only the ledger is kept.
Terminate(s, info) ==
  LET t == dmumps_c([s EXCEPT !.job = 0 - 2], info)
  IN  [NoStruct EXCEPT !.st = "deleted", !.inits = t.inits, !.terms = t.terms,
                       !.misuse = t.misuse]

\* The initialization of a fresh instance: job = -1, par = 1, sym = 0,
\* comm_fortran = -987654, dmumps_c.
Initialize(info) ==
  dmumps_c([NewStruct EXCEPT !.job = 0 - 1, !.par = 1, !.sym = 0,
                             !.comm_fortran = 0 - 987654], info)

\* The inner loop of init_mem over k in [k, kend) for column c.
RECURSIVE PushColumn(_, _, _, _, _)
PushColumn(k, kend, c, g, acc) ==
  IF k >= kend THEN acc
  ELSE PushColumn(k + 1, kend, c, g,
                  [irn |-> Append(acc.irn, rowAt(k, g) + 1),
                   jcn |-> Append(acc.jcn, c + 1)])

\* The outer loop of a correct conversion: over the columns up to cend.
RECURSIVE PushColumns(_, _, _, _)
PushColumns(c, cend, g, acc) ==
  IF c >= cend THEN acc
  ELSE PushColumns(c + 1, cend, g,
                   PushColumn(colindAt(c, g), colindAt(c + 1, g), c, g, acc))

\* init_mem's coordinate lists with the row and the column index both 0-based.
RECURSIVE PushColumn_zerobased(_, _, _, _, _)
PushColumn_zerobased(k, kend, c, g, acc) ==
  IF k >= kend THEN acc
  ELSE PushColumn_zerobased(k + 1, kend, c, g,
                  [irn |-> Append(acc.irn, rowAt(k, g)),
                   jcn |-> Append(acc.jcn, c)])

\* Sparsity pattern in MUMPS format: irn and jcn are cleared, then the loop
\* runs c over [0, n) with n = nrow() and pushes (row[k] + 1, c + 1) for every
\* k in [colind[c], colind[c + 1]).
Triplets(g) == PushColumns(0, nrow, g, [irn |-> <<>>, jcn |-> <<>>])

\* The outcomes of the conversion.  With more rows than columns the loop
\* reads colind past its end, which is undefined: the process may fault, or
\* the reads yield some values.
TripletOutcomes ==
  IF nrow > ncol
  THEN {[fault |-> TRUE, irn |-> <<>>, jcn |-> <<>>]} \cup
       {[fault |-> FALSE, irn |-> Triplets(g).irn, jcn |-> Triplets(g).jcn] :
          g \in Garbage}
  ELSE {[fault |-> FALSE, irn |-> Triplets(NoGarbage).irn,
         jcn |-> Triplets(NoGarbage).jcn]}

Allocated == {k \in 1..MaxInst : mumps[k].st # "free"}

\* MumpsMemory::MumpsMemory(): id = 0, empty coordinate lists.
InitMumpsVars ==
  /\ sp \in Patterns
  /\ memState = "alive"
  /\ id = 0
  /\ irn = <<>>
  /\ jcn = <<>>
  /\ mumps = [k \in 1..MaxInst |-> NoStruct]
  /\ mRet = NoRet

\* init_mem(mem): fails when the base class fails; otherwise terminates and
\* deletes the instance the memory holds, if any, creates and initializes a
\* new one, and rebuilds the coordinate lists.
init_mem ==
  /\ memState = "alive"
  /\ \E baseFails \in BOOLEAN :
       IF baseFails
       THEN /\ mRet' = [op |-> "init_mem", outcome |-> "returned", ret |-> 1]
            /\ UNCHANGED <<sp, memState, id, irn, jcn, mumps>>
       ELSE /\ Cardinality(Allocated) < MaxInst
            /\ \E infoT \in MumpsInfo, infoI \in MumpsInfo, t \in TripletOutcomes :
                 LET new == Cardinality(Allocated) + 1
                     freed == IF id # 0
                              THEN [mumps EXCEPT ![id] = Terminate(mumps[id], infoT)]
                              ELSE mumps
                 IN  /\ mumps' = [freed EXCEPT ![new] = Initialize(infoI)]
                     /\ id' = new
                     /\ irn' = t.irn
                     /\ jcn' = t.jcn
                     /\ memState' = IF t.fault THEN "faulted" ELSE "alive"
                     /\ mRet' = IF t.fault
                                THEN [op |-> "init_mem", outcome |-> "fault"]
                                ELSE [op |-> "init_mem", outcome |-> "returned",
                                      ret |-> 0]
            /\ UNCHANGED sp
  /\ UNCHANGED notMumps

\* nfact(mem, A): casadi_assert_dev(A != nullptr), which only debug builds
\* check, and return 0.  No package call is made.
nfactOutcomes(Anull) ==
  IF Anull
  THEN {[op |-> "nfact", outcome |-> "error", called |-> FALSE],
        [op |-> "nfact", outcome |-> "returned", ret |-> 0, called |-> FALSE]}
  ELSE {[op |-> "nfact", outcome |-> "returned", ret |-> 0, called |-> FALSE]}

nfact ==
  /\ memState = "alive"
  /\ \E Anull \in BOOLEAN : \E r \in nfactOutcomes(Anull) : mRet' = r
  /\ UNCHANGED <<sp, memState, id, irn, jcn, mumps, notMumps>>

\* solve() without the check of nrhs.
solve_nonrhscheck(s, nrhs, tr, info) ==
  IF tr
  THEN [outcome |-> "error", msg |-> "not implemented", called |-> FALSE, struct |-> s]
  ELSE [outcome |-> "returned", ret |-> 0, called |-> TRUE,
        struct |-> dmumps_c([s EXCEPT !.n = nrow, !.nnz = Len(irn),
                                      !.icntl = <<0 - 1, 0 - 1, 0 - 1, 0>>,
                                      !.job = 6], info)]

\* solve(mem, A, x, nrhs, tr) on the structure s the memory holds: a
\* transposed or a multiple right-hand-side request throws "not implemented";
\* otherwise the problem is defined (n, nnz, irn, jcn, a, rhs), output is
\* switched off (ICNTL(1..4)), job 6 is run and 0 is returned.
solve(s, nrhs, tr, info) ==
  IF tr
  THEN [outcome |-> "error", msg |-> "not implemented", called |-> FALSE, struct |-> s]
  ELSE IF nrhs # 1
  THEN [outcome |-> "error", msg |-> "not implemented", called |-> FALSE, struct |-> s]
  ELSE [outcome |-> "returned", ret |-> 0, called |-> TRUE,
        struct |-> dmumps_c([s EXCEPT !.n = nrow, !.nnz = Len(irn),
                                      !.icntl = <<0 - 1, 0 - 1, 0 - 1, 0>>,
                                      !.job = 6], info)]

NrhsArgs == {0, 1, 2}

\* A solve call on a memory that init_mem has set up (the memory is handed
\* to solve only after a successful init_mem).
SolveCall(nrhs, tr, info) ==
  /\ memState = "alive"
  /\ id # 0
  /\ LET r == solve(mumps[id], nrhs, tr, info)
     IN  /\ mumps' = [mumps EXCEPT ![id] = r.struct]
         /\ mRet' = [op |-> "solve", nrhs |-> nrhs, tr |-> tr,
                     outcome |-> r.outcome, called |-> r.called,
                     ret |-> IF r.outcome = "returned" THEN r.ret ELSE 0 - 1,
                     msg |-> IF r.outcome = "error" THEN r.msg ELSE ""]
  /\ UNCHANGED <<sp, memState, id, irn, jcn, notMumps>>

Solve == \E nrhs \in NrhsArgs, tr \in BOOLEAN, info \in MumpsInfo : SolveCall(nrhs, tr, info)

\* MumpsMemory::~MumpsMemory(): terminates and deletes the instance, if any.
DestroyMemory ==
  /\ memState = "alive"
  /\ \E infoT \in MumpsInfo :
       mumps' = IF id # 0 THEN [mumps EXCEPT ![id] = Terminate(mumps[id], infoT)]
                ELSE mumps
  /\ memState' = "destroyed"
  /\ mRet' = [op |-> "~MumpsMemory"]
  /\ UNCHANGED <<sp, id, irn, jcn, notMumps>>

MumpsStep ==
  \/ init_mem
  \/ nfact
  \/ Solve
  \/ DestroyMemory

(***************************************************************************)
(* FX                                                                      *)
(***************************************************************************)
\* buffer contents: 0, the content after construction, and another value
Vals == {0, 1}

\* the value types T the SETTERS / GETTERS macros are instantiated for
SetterTypes == {"double", "const double*", "const std::vector<double>&",
                "const Matrix<double>&"}
GetterTypes == {"double&", "double*", "std::vector<double>&", "Matrix<double>&"}

Kinds == {"Input", "Output", "FwdSeed", "FwdSens", "AdjSeed", "AdjSens"}
SlotArgs == {0, 1}
ColumnCounts == {1, 2}

\* struct FunctionIO: data, dataF (one per forward direction), dataA (one per
\* adjoint direction); here with one direction each.
FunctionIO(v) == [data |-> v, dataF |-> <<v>>, dataA |-> <<v>>]

\* assertInit(): passes only on an initialized (Ready) function.
assertInit == fxState = "Ready"

\* Which slot vector a buffer lives in: input(), fwdSeed() and adjSens() are
\* indexed by iind, output(), fwdSens() and adjSeed() by oind.
OnInputSide(kind) == kind \in {"Input", "FwdSeed", "AdjSens"}
SlotsOf(kind) == IF OnInputSide(kind) THEN input_ ELSE output_

\* input(ind), output(ind), fwdSeed(ind, dir), ...: the buffer accessors fail
\* on a slot or direction index outside the configuration.
InConfiguration(kind, ind, dir) ==
  /\ ind >= 0 /\ ind < Len(SlotsOf(kind))
  /\ kind \in {"Input", "Output"} \/
       (dir >= 0 /\ dir < Len(SlotsOf(kind)[ind + 1].dataF))

Buffer(kind, ind, dir) ==
  LET slot == SlotsOf(kind)[ind + 1]
  IN  CASE kind \in {"Input", "Output"} -> slot.data
        [] kind \in {"FwdSeed", "FwdSens"} -> slot.dataF[dir + 1]
        [] OTHER -> slot.dataA[dir + 1]

WithBuffer(slots, kind, ind, dir, val) ==
  CASE kind \in {"Input", "Output"} -> [slots EXCEPT ![ind + 1].data = val]
    [] kind \in {"FwdSeed", "FwdSens"} -> [slots EXCEPT ![ind + 1].dataF[dir + 1] = val]
    [] OTHER -> [slots EXCEPT ![ind + 1].dataA[dir + 1] = val]

\* The buffer access of a setter, once assertInit() has passed.
SetBuffer(kind, val, ind, dir) ==
  IF ~InConfiguration(kind, ind, dir)
  THEN [status |-> "OutOfRange", touched |-> {}, input |-> input_, output |-> output_]
  ELSE [status |-> "ok", touched |-> {<<kind, ind, dir>>},
        input |-> IF OnInputSide(kind)
                  THEN WithBuffer(input_, kind, ind, dir, val) ELSE input_,
        output |-> IF OnInputSide(kind)
                   THEN output_ ELSE WithBuffer(output_, kind, ind, dir, val)]

\* The buffer access of a getter, once assertInit() has passed.
GetBuffer(kind, ind, dir) ==
  IF ~InConfiguration(kind, ind, dir)
  THEN [status |-> "OutOfRange", touched |-> {}, val |-> 0]
  ELSE [status |-> "ok", touched |-> {<<kind, ind, dir>>},
        val |-> Buffer(kind, ind, dir)]

\* A setter that accesses the buffer without calling assertInit() first.
SETTERS_noassert(kind, val, ind, dir) == SetBuffer(kind, val, ind, dir)

\* SETTERS(T): set<kind>(T val, int ind, int dir) is
\* { assertInit(); <kind>(ind, dir).set(val); }
SETTERS(kind, val, ind, dir) ==
  IF ~assertInit
  THEN [status |-> "NotInitialized", touched |-> {}, input |-> input_, output |-> output_]
  ELSE SetBuffer(kind, val, ind, dir)

\* GETTERS(T): get<kind>(T val, int ind, int dir) is
\* { assertInit(); <kind>(ind, dir).get(val); }
GETTERS(kind, ind, dir) ==
  IF ~assertInit
  THEN [status |-> "NotInitialized", touched |-> {}, val |-> 0]
  ELSE GetBuffer(kind, ind, dir)

\* jacobian() without the test of the shapes.
jacobian_noshapetest(iind, oind) ==
  IF ~assertInit THEN [status |-> "NotInitialized", jac |-> <<>>]
  ELSE IF ~(iind >= 0 /\ iind < Len(input_) /\ oind >= 0 /\ oind < Len(output_))
  THEN [status |-> "OutOfRange", jac |-> <<>>]
  ELSE [status |-> "ok", jac |-> <<iind, oind>>]

\* jacobian(iind, oind): needs an initialized function and existing slots, and
\* m = 1, q = 1: both slots a single column.  The result is the function of
\* the Jacobian block (iind, oind).
jacobian(iind, oind) ==
  IF ~assertInit THEN [status |-> "NotInitialized", jac |-> <<>>]
  ELSE IF ~(iind >= 0 /\ iind < Len(input_) /\ oind >= 0 /\ oind < Len(output_))
  THEN [status |-> "OutOfRange", jac |-> <<>>]
  ELSE IF ~(fxShape.m = 1 /\ fxShape.q = 1)
  THEN [status |-> "ShapeError", jac |-> <<>>]
  ELSE [status |-> "ok", jac |-> <<iind, oind>>]

\* A default-constructed function with one input and one output slot, whose
\* shapes are those of the function it stands for.
InitFXVars ==
  /\ fxState = "Uninitialized"
  /\ fxShape \in [m : ColumnCounts, q : ColumnCounts]
  /\ input_ = <<FunctionIO(0)>>
  /\ output_ = <<FunctionIO(0)>>
  /\ fxRet = NoRet

\* Uninitialized -> Initializing: slot counts and options are fixed.
BeginInit ==
  /\ fxState = "Uninitialized"
  /\ fxState' = "Initializing"
  /\ fxRet' = [op |-> "init"]
  /\ UNCHANGED <<fxShape, input_, output_, notFX>>

\* Initializing -> Ready.
FinishInit ==
  /\ fxState = "Initializing"
  /\ fxState' = "Ready"
  /\ fxRet' = [op |-> "init"]
  /\ UNCHANGED <<fxShape, input_, output_, notFX>>

SetterCall ==
  \E T \in SetterTypes, kind \in Kinds, val \in Vals, ind \in SlotArgs, dir \in SlotArgs :
    LET r == SETTERS(kind, val, ind, dir)
    IN  /\ input_' = r.input
        /\ output_' = r.output
        /\ fxRet' = [op |-> "set", kind |-> kind, state |-> fxState,
                     status |-> r.status, touched |-> r.touched]
        /\ UNCHANGED <<fxState, fxShape, notFX>>

GetterCall ==
  \E T \in GetterTypes, kind \in Kinds, ind \in SlotArgs, dir \in SlotArgs :
    LET r == GETTERS(kind, ind, dir)
    IN  /\ fxRet' = [op |-> "get", kind |-> kind, state |-> fxState,
                     status |-> r.status, touched |-> r.touched, val |-> r.val]
        /\ UNCHANGED <<fxState, fxShape, input_, output_, notFX>>

JacobianCall ==
  \E iind \in SlotArgs, oind \in SlotArgs :
    LET r == jacobian(iind, oind)
    IN  /\ fxRet' = [op |-> "jacobian", iind |-> iind, oind |-> oind,
                     state |-> fxState, status |-> r.status, jac |-> r.jac]
        /\ UNCHANGED <<fxState, fxShape, input_, output_, notFX>>

\* int arguments tried for operator[] and the indexed accessors: the output
\* slot, and indices on both sides of it
IndexedArgs == {0 - 1, 0, 1, 2}

\* operator[](k): construct a function that has only the k'th output; there
\* is no such function for a k that names no output slot.
OperatorIndex(k) ==
  IF k >= 0 /\ k < Len(output_)
  THEN [status |-> "ok", onlyOutput |-> k]
  ELSE [status |-> "OutOfRange", index |-> k]

\* indexed_one_based() passing its argument on unchanged.
indexed_one_based_nooffset(k) == OperatorIndex(k)

\* FX indexed_one_based(int k) const { return operator[](k-1); }
indexed_one_based(k) == OperatorIndex(k - 1)

\* FX indexed_zero_based(int k) const { return operator[](k); }
indexed_zero_based(k) == OperatorIndex(k)

OperatorIndexCall ==
  \E k \in IndexedArgs :
    /\ fxRet' = [op |-> "operator[]", k |-> k, res |-> OperatorIndex(k)]
    /\ UNCHANGED <<fxState, fxShape, input_, output_, notFX>>

IndexedOneBasedCall ==
  \E k \in IndexedArgs :
    /\ fxRet' = [op |-> "indexed_one_based", k |-> k, res |-> indexed_one_based(k)]
    /\ UNCHANGED <<fxState, fxShape, input_, output_, notFX>>

IndexedZeroBasedCall ==
  \E k \in IndexedArgs :
    /\ fxRet' = [op |-> "indexed_zero_based", k |-> k, res |-> indexed_zero_based(k)]
    /\ UNCHANGED <<fxState, fxShape, input_, output_, notFX>>

FXStep ==
  \/ BeginInit
  \/ FinishInit
  \/ SetterCall
  \/ GetterCall
  \/ JacobianCall
  \/ OperatorIndexCall
  \/ IndexedOneBasedCall
  \/ IndexedZeroBasedCall

(***************************************************************************)
(* Specifications                                                          *)
(***************************************************************************)
InitIO ==
  /\ InitIOVars
  /\ InitMumpsVars /\ sp = Sparsity(0, 0, {})
  /\ InitFXVars /\ fxShape = [m |-> 1, q |-> 1]
NextIO == IOStep
SpecIO == InitIO /\ [][NextIO]_vars

InitMumps ==
  /\ InitMumpsVars
  /\ InitIOVars
  /\ InitFXVars /\ fxShape = [m |-> 1, q |-> 1]
NextMumps == MumpsStep
SpecMumps == InitMumps /\ [][NextMumps]_vars

InitFX ==
  /\ InitFXVars
  /\ InitIOVars
  /\ InitMumpsVars /\ sp = Sparsity(0, 0, {})
NextFX == FXStep
SpecFX == InitFX /\ [][NextFX]_vars

(***************************************************************************)
(* Claims about MumpsInterface (checked under SpecMumps)                   *)
(***************************************************************************)
\* C1: solve rejects an unsupported request.  Every solve call with tr = true
\* and every solve call with nrhs # 1 raises the error "not implemented",
\* returns no status and leaves the MUMPS structure as it was; a call with
\* tr = false and nrhs = 1, and only such a call, runs the MUMPS job (job 6).
C1_SolveRejectsUnsupported ==
  [][\A nrhs \in NrhsArgs, tr \in BOOLEAN, info \in MumpsInfo :
       SolveCall(nrhs, tr, info) =>
         IF tr \/ nrhs # 1
         THEN /\ mRet'.outcome = "error"
              /\ mRet'.msg = "not implemented"
              /\ ~mRet'.called
              /\ mumps' = mumps
         ELSE /\ mRet'.outcome = "returned"
              /\ mRet'.called
              /\ mumps'[id].job = 6
              /\ mumps'[id].infog = info]_vars

\* C1 witness: a solve call for two right-hand sides, not transposed, has been
\* rejected on a memory that holds an initialized instance.
C1_Witness ==
  /\ mRet.op = "solve"
  /\ ~mRet.tr
  /\ mRet.nrhs = 2
  /\ mRet.outcome = "error"
  /\ id # 0
  /\ mumps[id].job = 0 - 1

\* C2 as stated: the backend reports failure to its caller.  Whenever the
\* MUMPS job run by nfact or solve fails (INFOG(1) < 0), the call does not
\* return the success status 0.
C2_FailureReported_Orig ==
  (mRet.op \in {"nfact", "solve"} /\ mRet.called /\ mumps[id].infog < 0) =>
    ~(mRet.outcome = "returned" /\ mRet.ret = 0)

\* The column (0-based) that holds nonzero k (0-based) of the pattern.
ColumnOf(k) ==
  CHOOSE c \in 0..(ncol - 1) : sp.colind[c + 1] <= k /\ k < sp.colind[c + 2]

\* C3 as stated: after a successful init_mem, for every sparsity pattern, irn
\* and jcn each hold exactly nnz entries, one per structural nonzero in
\* column-major order, with irn[k] = row[k] + 1 and jcn[k] = c + 1 for the
\* column c that holds nonzero k.
C3_TripletsMatchPattern_Orig ==
  (mRet.op = "init_mem" /\ mRet.outcome = "returned" /\ mRet.ret = 0) =>
    /\ Len(irn) = nnz
    /\ Len(jcn) = nnz
    /\ \A k \in 1..nnz :
         /\ irn[k] = sp.row[k] + 1
         /\ jcn[k] = ColumnOf(k - 1) + 1

C6_AccessorsCheckInit ==
  [][(fxRet'.op \in {"set", "get"} /\ fxState # "Ready") =>
       /\ fxRet'.status = "NotInitialized"
       /\ fxRet'.touched = {}
       /\ input_' = input_
       /\ output_' = output_]_vars

\* C6 witness: a setter was called on a function that is still initializing
\* and failed.
C6_Witness ==
  /\ fxRet.op = "set"
  /\ fxRet.state = "Initializing"
  /\ fxState = "Initializing"
  /\ fxRet.status = "NotInitialized"

\* C7: jacobian(iind, oind) is valid only when the selected input slot and the
\* selected output slot are both a single column (m = 1 and q = 1).  For every
\* other pair of shapes the request fails and produces no Jacobian function,
\* with a shape error when the function is initialized and the slots exist.
C7_JacobianNeedsColumns ==
  fxRet.op = "jacobian" =>
    /\ fxRet.status = "ok" =>
         /\ fxShape.m = 1 /\ fxShape.q = 1
         /\ fxRet.jac = <<fxRet.iind, fxRet.oind>>
    /\ ~(fxShape.m = 1 /\ fxShape.q = 1) =>
         /\ fxRet.status # "ok"
         /\ fxRet.jac = <<>>
         /\ (/\ fxRet.state = "Ready"
             /\ fxRet.iind < Len(input_)
             /\ fxRet.oind < Len(output_)) => fxRet.status = "ShapeError"

\* C7 witness: jacobian(0, 0) was requested on an initialized function whose
\* input slot has two columns, and failed with the shape error.
C7_Witness ==
  /\ fxRet.op = "jacobian"
  /\ fxRet.state = "Ready"
  /\ fxShape.m = 2
  /\ fxRet.iind = 0 /\ fxRet.oind = 0
  /\ fxRet.status = "ShapeError"

\* C11: the two indexed accessors select the same output under their bases.
\* For every k, indexed_zero_based(k) is operator[](k) and indexed_one_based(k)
\* is operator[](k - 1); so indexed_one_based(k + 1) and indexed_zero_based(k)
\* give the same result, the function of output k when there is one.
C11_IndexedAccessorsAgree ==
  /\ fxRet.op = "indexed_zero_based" => fxRet.res = OperatorIndex(fxRet.k)
  /\ fxRet.op = "indexed_one_based" =>
       /\ fxRet.res = OperatorIndex(fxRet.k - 1)
       /\ fxRet.res = indexed_zero_based(fxRet.k - 1)
       /\ fxRet.res.status = "ok" => fxRet.res.onlyOutput = fxRet.k - 1
  /\ \A k \in IndexedArgs :
       /\ indexed_one_based(k + 1) = indexed_zero_based(k)
       /\ (k >= 0 /\ k < Len(output_)) =>
            indexed_one_based(k + 1) = [status |-> "ok", onlyOutput |-> k]

\* C11 witness: indexed_one_based(1) was called and returned the function of
\* output 0, which is what indexed_zero_based(0) returns.
C11_Witness ==
  /\ fxRet.op = "indexed_one_based"
  /\ fxRet.k = 1
  /\ fxRet.res = [status |-> "ok", onlyOutput |-> 0]
  /\ fxRet.res = indexed_zero_based(0)

(***************************************************************************)
(* Claims about IOSchemeCustomInternal (checked under SpecIO)              *)
(***************************************************************************)
Occurs(nm) == \E k \in 1..Len(entries_) : entries_[k] = nm

\* C4: name to index and back.  For every name that occurs in the entry list
\* of a constructed scheme, index(name) succeeds with an index in [0, size())
\* and entry(index(name)) is that name; the same holds of the result an
\* index() call has just returned.
C4_NameToIndexAndBack ==
  ioState = "constructed" =>
    /\ \A k \in 1..Len(entries_) :
         LET r == index(entries_[k])
         IN  /\ r.status = "ok"
             /\ r.idx >= 0 /\ r.idx < size
             /\ entry(r.idx) = [status |-> "ok", str |-> entries_[k]]
    /\ (ioRet.op = "index" /\ Occurs(ioRet.name)) =>
         /\ ioRet.res.status = "ok"
         /\ ioRet.res.idx >= 0 /\ ioRet.res.idx < size
         /\ entry(ioRet.res.idx) = [status |-> "ok", str |-> ioRet.name]

\* C4 witness: index() was called with a name that occurs in a list of two
\* entries and returned the second position.
C4_Witness ==
  /\ ioState = "constructed"
  /\ ioRet.op = "index"
  /\ Occurs(ioRet.name)
  /\ ioRet.res.status = "ok"
  /\ ioRet.res.idx = 1

\* C5 as stated: index to name and back.  For every index i with
\* 0 <= i < size(), index(entry(i)) == i.
C5_IndexToNameAndBack_Orig ==
  ioState = "constructed" =>
    \A i \in 0..(size - 1) :
      index(entry(i).str) = [status |-> "ok", idx |-> i]

\* C5 amended: for every index i with 0 <= i < size(), index(entry(i)) is the
\* smallest index j whose entry equals entry(i); it equals i exactly when no
\* earlier entry carries the same name (always, when the names are distinct).
C5_IndexToNameAndBack ==
  ioState = "constructed" =>
    \A i \in 0..(size - 1) :
      LET r == index(entry(i).str)
          earlier == \E j \in 0..(i - 1) : entries_[j + 1] = entries_[i + 1]
      IN  /\ entry(i).status = "ok"
          /\ r.status = "ok"
          /\ r.idx >= 0 /\ r.idx <= i
          /\ entries_[r.idx + 1] = entries_[i + 1]
          /\ \A j \in 0..(r.idx - 1) : entries_[j + 1] # entries_[i + 1]
          /\ (r.idx = i) <=> ~earlier

\* C5 witness: entry(1) was read from a scheme whose entries 0 and 1 carry
\* the same name, so index(entry(1)) is 0.
C5_Witness ==
  /\ ioState = "constructed"
  /\ ioRet.op = "entry"
  /\ ioRet.i = 1
  /\ ioRet.res.status = "ok"
  /\ size >= 2
  /\ entries_[1] = entries_[2]
  /\ index(ioRet.res.str).idx = 0

\* C8: entry(i) surfaces an out-of-range index.  A call with i < 0 or
\* i >= size() fails with an error carrying the index and the scheme length;
\* a call with i in [0, size()) returns the i-th entry name unchanged.
C8_EntryRangeChecked ==
  (ioState = "constructed" /\ ioRet.op = "entry") =>
    LET i == ioRet.i
        r == ioRet.res
    IN  /\ (i < 0 \/ i >= size) =>
             /\ r.status = "error"
             /\ r.where = "customIO::entry()"
             /\ r.index = i
             /\ r.length = Len(ioArgs.entries)
        /\ (i >= 0 /\ i < size) =>
             /\ r.status = "ok"
             /\ r.str = ioArgs.entries[i + 1]

\* C8 witness: entry(size()) was called on a non-empty scheme and failed.
C8_Witness ==
  /\ ioState = "constructed"
  /\ ioRet.op = "entry"
  /\ size >= 1
  /\ ioRet.i = size
  /\ ioRet.res.status = "error"

\* C9: index(name) never returns an invalid index.  For a name that is not in
\* the entry list the call raises an error that lists the available entries
\* (it does not return -1); for a name in the list, also one that occurs more
\* than once, it returns the position of the first occurrence.
C9_IndexNeverInvalid ==
  (ioState = "constructed" /\ ioRet.op = "index") =>
    LET nm == ioRet.name
        r == ioRet.res
    IN  /\ ~Occurs(nm) =>
             /\ r.status = "error"
             /\ r.entry = nm
             /\ r.available = entryNames
        /\ Occurs(nm) =>
             /\ r.status = "ok"
             /\ r.idx >= 0 /\ r.idx < size
             /\ entries_[r.idx + 1] = nm
             /\ \A j \in 0..(r.idx - 1) : entries_[j + 1] # nm
        /\ r.status = "ok" => (r.idx >= 0 /\ r.idx < size)

\* C9 witness: index() was called on a non-empty scheme with a name that is
\* not among its entries, and raised the error.
C9_Witness ==
  /\ ioState = "constructed"
  /\ ioRet.op = "index"
  /\ size >= 1
  /\ ~Occurs(ioRet.name)
  /\ ioRet.res.status = "error"

\* C10: every constructed IOSchemeCustomInternal has exactly one description
\* per entry.  An empty description list is padded to one empty description
\* per entry, a non-empty description list of another length is rejected by
\* the constructor (and only such a list is), and after any member function
\* call both lists are still what the constructor made of its arguments.
C10_OneDescriptionPerEntry ==
  /\ ioState = "constructed" =>
       /\ Len(descriptions_) = Len(entries_)
       /\ entries_ = ioArgs.entries
       /\ ioArgs.descriptions = <<>> =>
            /\ Len(descriptions_) = Len(ioArgs.entries)
            /\ \A k \in 1..Len(descriptions_) : descriptions_[k] = ""
       /\ ioArgs.descriptions # <<>> => descriptions_ = ioArgs.descriptions
  /\ ioState # "none" =>
       ((ioState = "rejected") <=>
          (/\ ioArgs.descriptions # <<>>
           /\ Len(ioArgs.descriptions) # Len(ioArgs.entries)))

\* C10 witness: a scheme built from two entries and no descriptions, after a
\* describe() call.
C10_Witness ==
  /\ ioState = "constructed"
  /\ Len(ioArgs.entries) >= 2
  /\ ioArgs.descriptions = <<>>
  /\ Len(descriptions_) >= 2
  /\ ioRet.op = "describe"

\* C13 as stated: describe(i) is range-checked like entry(i).  For every i
\* outside [0, size()) describe(i) fails with the range error of entry(i) and
\* reads no element of the description list outside its bounds; for i in
\* range it returns entry(i) when the description is empty and entry(i)
\* followed by the quoted description otherwise.
C13_DescribeRangeChecked_Orig ==
  (ioState = "constructed" /\ ioRet.op = "describe") =>
    LET i == ioRet.i
        r == ioRet.res
    IN  /\ (i < 0 \/ i >= size) =>
             /\ r = entry(i)
             /\ r.status = "error"
             /\ (ioRet.read >= 0 /\ ioRet.read < Len(descriptions_))
        /\ (i >= 0 /\ i < size) =>
             /\ r.status = "ok"
             /\ r.pieces = IF descriptions_[i + 1] = ""
                           THEN <<entries_[i + 1]>>
                           ELSE <<entries_[i + 1], " '", descriptions_[i + 1], "'">>

====
